---------------------------- MODULE Spec2Model ----------------------------
(***************************************************************************)
(* Model of the WIRE UART bridge firmware: the console command handlers    *)
(* (commands.cpp), the one-shot link initialisation and the three run      *)
(* loops (wire.cpp).                                                       *)
(*                                                                         *)
(* Endpoints: "usb" is Serial (the USB console port), "wire" is Serial1    *)
(* (the inter-chip UART).  Directions: "w2u" is Serial1 -> USB (receive),  *)
(* "u2w" is USB -> Serial1 (send).                                         *)
(*                                                                         *)
(* The serial driver is outside the repository.  It is modelled by its     *)
(* interface: available() is the length of the receive FIFO, readBytes     *)
(* returns between 1 and the requested count when that many bytes were     *)
(* reported available, write returns any count between 0 and the request,  *)
(* availableForWrite() reports any capacity.                               *)
(***************************************************************************)
EXTENDS Naturals, Sequences, FiniteSets

VARIABLES
  pc,          \* position of the single thread of control
  fn,          \* run function being executed: "none", "receive", "send", "bidi"
  cmd,         \* console command that was dispatched: "none", "receive", "send"
  dir,         \* direction whose block of the loop body is being executed
  wire_inited, \* the latch of wire_init (wire.cpp:5)
  begins,      \* number of times Serial1.begin/set*BufferSize were performed
  initCalls,   \* number of calls of wire_init so far
  bufsz,       \* BRIDGE_BUF_SZ, sizeof(buf)
  rx,          \* per endpoint: bytes received and not yet read
  arrived,     \* per endpoint: every byte that ever arrived, in order
  tx,          \* per endpoint: bytes the bridge's write calls were accepted for
  buf,         \* per direction: the first n bytes of the staging buffer
  n,           \* per direction: the local n (a, b in run_bidi_bridge)
  off,         \* per direction: the local off
  wrote,       \* per endpoint: the bridge has issued a write call on it
  flushes,     \* per endpoint: flush(false) calls issued by the bridge
  lastW,       \* the last write call of the current tick: sink, requested size,
               \* bytes pending, capacity the sink reported
  stalled,     \* per endpoint: the sink has stopped accepting bytes for good
  echoed,      \* USB bytes consumed (and echoed) by the console poll loop
  status,      \* status lines printed by a command handler
  conFlush,    \* blocking Serial.flush() calls made by a command handler
  ticks        \* per direction: pump ticks that moved data

vars == <<pc, fn, cmd, dir, wire_inited, begins, initCalls, bufsz, rx, arrived,
          tx, buf, n, off, wrote, flushes, lastW, stalled, echoed, status,
          conFlush, ticks>>

----------------------------------------------------------------------------
(* Bounds of the model *)

MaxArrive == 2      \* bytes that arrive at one endpoint
MaxBuf == 2         \* largest staging buffer size tried
MaxRoom == 1        \* largest write capacity a sink reports
MaxInitCalls == 1   \* direct calls of wire_init before a bridge is entered
MaxChunkLen == 258   \* largest n passed to write_chunk
MaxChunkRoom == 258  \* largest capacity availableForWrite() reports to it

(* Program constants *)

WRITE_CAP == 256    \* the hard per-call ceiling of write_chunk

----------------------------------------------------------------------------
EP == {"usb", "wire"}
DIR == {"w2u", "u2w"}

\* The k-th byte that arrives at endpoint e.  The bridge never inspects a
\* byte, so every byte of the input is given a value of its own: a byte that
\* is lost, repeated, moved or sent to the wrong endpoint shows.
ByteAt(e, k) == IF e = "usb" THEN k ELSE 100 + k

Min(a, b) == IF a <= b THEN a ELSE b

Src(d) == IF d = "w2u" THEN "wire" ELSE "usb"
\* mutant: a direction writes back to the endpoint it read from
SnkLoop(d) == Src(d)
Snk(d) == IF d = "w2u" THEN "usb" ELSE "wire"

\* mutant: if (n >= sizeof(buf)) n = sizeof(buf) - 1;
WantOffByOne(a, B) == IF a >= B THEN B - 1 ELSE a

\* mutant: the clamp to sizeof(buf) left out
WantNoClamp(a, B) == a

\* if (n > sizeof(buf)) n = sizeof(buf);
Want(a, B) == IF a > B THEN B ELSE a

\* mutant: write(buf, n - off), the offset into the buffer forgotten
ChunkNoOff(b, o, k) == SubSeq(b, 1, k)

\* buf + off, n - off: the bytes a write call of k accepted bytes takes
Chunk(b, o, k) == SubSeq(b, o + 1, o + k)

\* mutant: off++ for each write call, whatever count the call returned
NextOffByOne(o, k) == o + 1

\* off += s.write(...)
NextOff(o, k) == o + k

Take(s, k) == SubSeq(s, 1, k)
Drop(s, k) == SubSeq(s, k + 1, Len(s))


----------------------------------------------------------------------------
(* Control flow of the run loops *)

\* mutant: the two blocks of the bidirectional loop body in the other order
FirstDirSwapped(f) == IF f = "receive" THEN "w2u" ELSE "u2w"

\* the direction of the first block of the loop body of run function f
FirstDir(f) == IF f = "send" THEN "u2w" ELSE "w2u"

\* mutant: every run function has the two blocks of the bidirectional loop
AfterBlockBoth(f, d) ==
  IF d = "w2u" THEN <<"u2w", "avail">> ELSE <<d, "delay">>

\* mutant: continue; at the end of the first block of the bidirectional loop
AfterBlockSkip(f, d) == <<d, "delay">>

\* where control goes when the block of direction d is left: <<dir, pc>>
AfterBlock(f, d) ==
  IF f = "bidi" /\ d = "w2u" THEN <<"u2w", "avail">> ELSE <<d, "delay">>

\* mutant: if (!n) continue; on an empty source, the rest of the pass skipped
AfterIdleContinue(f, d) ==
  IF f = "bidi" /\ d = "w2u" THEN <<"u2w", "avail">>
                             ELSE <<FirstDir(f), "avail">>

\* mutant: the flush placed after the if block instead of inside it
AfterIdleFlush(f, d) == <<d, "flush">>

\* if (n) { ... } with n = 0: the whole block is skipped
AfterIdle(f, d) == AfterBlock(f, d)

\* mutant: the loop ends after one pass and the run function returns
AfterDelayReturns(f) == <<FirstDir(f), "console">>

\* for (;;) { ...; delay(0); }: back to the top of the loop body
AfterDelay(f) == <<FirstDir(f), "avail">>

\* mutant: if (off < n) in place of while (off < n)
AfterWriteOnce(o, m) == "flush"

\* while (off < n): another write call, or the loop is left for the flush
AfterWrite(o, m) == IF o < m THEN "write" ELSE "flush"

\* mutant: the handler enters the bridge without flushing the console
HandlerNextNoFlush(p) ==
  CASE p = "h_print1" -> "h_print2"
    [] p = "h_print2" -> "h_delay"
    [] p = "h_flush"  -> "h_delay"
    [] p = "h_delay"  -> "init"

\* the statements of a command handler, in order
HandlerNext(p) ==
  CASE p = "h_print1" -> "h_print2"
    [] p = "h_print2" -> "h_flush"
    [] p = "h_flush"  -> "h_delay"
    [] p = "h_delay"  -> "init"

\* the run function the handler of command c calls
HandlerRun(c) == "bidi"

\* no write call has been issued in the current tick
NoWrite == [ep |-> "none", req |-> 0, pend |-> 0, room |-> 0]

HandlerPcs == {"h_print1", "h_print2", "h_flush", "h_delay"}
BridgePcs == {"init", "avail", "read", "write", "flush", "delay"}
InBridge == pc \in BridgePcs

----------------------------------------------------------------------------
(* Initial state: setup() has run, loop() polls the console *)

Init ==
  /\ pc = "console"
  /\ fn = "none"
  /\ cmd = "none"
  /\ dir = "w2u"
  /\ wire_inited = FALSE
  /\ begins = 0
  /\ initCalls = 0
  /\ bufsz \in 1..MaxBuf
  /\ rx = [e \in EP |-> <<>>]
  /\ arrived = [e \in EP |-> <<>>]
  /\ tx = [e \in EP |-> <<>>]
  /\ buf = [d \in DIR |-> <<>>]
  /\ n = [d \in DIR |-> 0]
  /\ off = [d \in DIR |-> 0]
  /\ wrote = [e \in EP |-> FALSE]
  /\ flushes = [e \in EP |-> 0]
  /\ lastW = NoWrite
  /\ stalled = [e \in EP |-> FALSE]
  /\ echoed = 0
  /\ status = 0
  /\ conFlush = 0
  /\ ticks = [d \in DIR |-> 0]

----------------------------------------------------------------------------
(* Environment *)

\* one byte arrives at endpoint e
Arrive(e) ==
  /\ Len(arrived[e]) < MaxArrive
  /\ e = "wire" => wire_inited     \* Serial1 receives nothing before begin()
  /\ LET b == ByteAt(e, Len(arrived[e]) + 1)
     IN /\ rx' = [rx EXCEPT ![e] = Append(@, b)]
        /\ arrived' = [arrived EXCEPT ![e] = Append(@, b)]
  /\ UNCHANGED <<pc, fn, cmd, dir, wire_inited, begins, initCalls, bufsz, tx,
                 buf, n, off, wrote, flushes, lastW, stalled, echoed,
                 status, conFlush, ticks>>

\* the peer of endpoint e stops taking bytes: every later write returns 0
Stall(e) ==
  /\ ~stalled[e]
  /\ stalled' = [stalled EXCEPT ![e] = TRUE]
  /\ UNCHANGED <<pc, fn, cmd, dir, wire_inited, begins, initCalls, bufsz, rx,
                 arrived, tx, buf, n, off, wrote, flushes, lastW, echoed,
                 status, conFlush, ticks>>

----------------------------------------------------------------------------
(* Console *)

\* loop(): konsole_poll reads a pending USB byte through the io callbacks
ConsolePoll ==
  /\ pc = "console"
  /\ rx["usb"] # <<>>
  /\ rx' = [rx EXCEPT !["usb"] = Tail(@)]
  /\ echoed' = echoed + 1
  /\ UNCHANGED <<pc, fn, cmd, dir, wire_inited, begins, initCalls, bufsz,
                 arrived, tx, buf, n, off, wrote, flushes, lastW, stalled,
                 status, conFlush, ticks>>

\* konsole_poll dispatches a registered command: its handler starts
Dispatch(c) ==
  /\ pc = "console"
  /\ cmd' = c
  /\ pc' = "h_print1"
  /\ UNCHANGED <<fn, dir, wire_inited, begins, initCalls, bufsz, rx, arrived,
                 tx, buf, n, off, wrote, flushes, lastW, stalled, echoed,
                 status, conFlush, ticks>>

\* cmd_receive / cmd_send: two kon_printf, Serial.flush(), delay(50), run
HandlerStep ==
  /\ pc \in HandlerPcs
  /\ pc' = HandlerNext(pc)
  /\ status' = IF pc \in {"h_print1", "h_print2"} THEN status + 1 ELSE status
  /\ conFlush' = IF pc = "h_flush" THEN conFlush + 1 ELSE conFlush
  /\ fn' = IF HandlerNext(pc) = "init" THEN HandlerRun(cmd) ELSE fn
  /\ UNCHANGED <<cmd, dir, wire_inited, begins, initCalls, bufsz, rx, arrived,
                 tx, buf, n, off, wrote, flushes, lastW, stalled, echoed,
                 ticks>>

----------------------------------------------------------------------------
(* wire.h: the exported entry points, called by any other caller *)

\* mutant: wire_init without the test of the latch
WireInitNoLatch ==
  /\ initCalls' = initCalls + 1
  /\ begins' = begins + 1
  /\ wire_inited' = TRUE

\* the body of wire_init
WireInit ==
  /\ initCalls' = initCalls + 1
  /\ IF wire_inited
       THEN UNCHANGED <<wire_inited, begins>>
       ELSE /\ begins' = begins + 1
            /\ wire_inited' = TRUE

\* a direct call of wire_init()
CallWireInit ==
  /\ pc = "console"
  /\ initCalls < MaxInitCalls
  /\ WireInit
  /\ UNCHANGED <<pc, fn, cmd, dir, bufsz, rx, arrived, tx, buf, n, off,
                 wrote, flushes, lastW, stalled, echoed, status, conFlush,
                 ticks>>

\* a direct call of run_receive_bridge(), run_send_bridge() or run_bidi_bridge()
CallRun(f) ==
  /\ pc = "console"
  /\ fn' = f
  /\ pc' = "init"
  /\ UNCHANGED <<cmd, dir, wire_inited, begins, initCalls, bufsz, rx, arrived,
                 tx, buf, n, off, wrote, flushes, lastW, stalled, echoed,
                 status, conFlush, ticks>>

----------------------------------------------------------------------------
(* The run loops *)

\* mutant: a run function that enters its loop without calling wire_init()
BridgeInitNoInit ==
  /\ pc = "init"
  /\ dir' = FirstDir(fn)
  /\ pc' = "avail"
  /\ UNCHANGED <<fn, cmd, wire_inited, begins, initCalls, bufsz, rx, arrived,
                 tx, buf, n, off, wrote, flushes, lastW, stalled, echoed,
                 status, conFlush, ticks>>

\* wire_init(); at the top of every run function, then the loop is entered
BridgeInit ==
  /\ pc = "init"
  /\ WireInit
  /\ dir' = FirstDir(fn)
  /\ pc' = "avail"
  /\ UNCHANGED <<fn, cmd, bufsz, rx, arrived, tx, buf, n, off, wrote,
                 flushes, lastW, stalled, echoed, status, conFlush, ticks>>

\* size_t n = src.available(); if (n) { if (n > sizeof(buf)) n = sizeof(buf);
Avail ==
  /\ pc = "avail"
  /\ LET a == Len(rx[Src(dir)])
         t == AfterIdle(fn, dir)
     IN IF a = 0
          THEN /\ dir' = t[1]
               /\ pc' = t[2]
               /\ n' = [n EXCEPT ![dir] = 0]
          ELSE /\ n' = [n EXCEPT ![dir] = Want(a, bufsz)]
               /\ pc' = "read"
               /\ dir' = dir
  /\ UNCHANGED <<fn, cmd, wire_inited, begins, initCalls, bufsz, rx, arrived,
                 tx, buf, off, wrote, flushes, lastW, stalled, echoed, status,
                 conFlush, ticks>>

\* n = src.readBytes(buf, n); size_t off = 0;   with readBytes returning r
ReadCall(r) ==
  /\ buf' = [buf EXCEPT ![dir] = Take(rx[Src(dir)], r)]
  /\ rx' = [rx EXCEPT ![Src(dir)] = Drop(@, r)]
  /\ n' = [n EXCEPT ![dir] = r]
  /\ off' = [off EXCEPT ![dir] = 0]
  /\ ticks' = [ticks EXCEPT ![dir] = @ + 1]
  /\ pc' = AfterWrite(0, r)
  /\ UNCHANGED <<fn, cmd, dir, wire_inited, begins, initCalls, bufsz, arrived,
                 tx, wrote, flushes, lastW, stalled, echoed, status, conFlush>>

\* the read returns some or all of the bytes asked for
Read ==
  /\ pc = "read"
  /\ \E r \in 1..n[dir] : ReadCall(r)

\* the size the loop asks the sink to take: snk.write(buf + off, n - off)
Request(pending, room) == pending

\* one call snk.write(buf + off, n - off) that returns k, with the sink
\* reporting a write capacity of room at the time of the call
WriteCall(k, room) ==
  LET d == dir
      s == Snk(d)
      o == NextOff(off[d], k)
  IN /\ tx' = [tx EXCEPT ![s] = @ \o Chunk(buf[d], off[d], k)]
     /\ off' = [off EXCEPT ![d] = o]
     /\ wrote' = [wrote EXCEPT ![s] = TRUE]
     /\ lastW' = [ep |-> s, req |-> Request(n[d] - off[d], room),
                  pend |-> n[d] - off[d], room |-> room]
     /\ pc' = AfterWrite(o, n[d])
     /\ UNCHANGED <<fn, cmd, dir, wire_inited, begins, initCalls, bufsz, rx,
                    arrived, buf, n, flushes, stalled, echoed, status,
                    conFlush, ticks>>

\* while (off < n) off += snk.write(...): the sink takes at least one byte
WriteProgress ==
  /\ pc = "write"
  /\ ~stalled[Snk(dir)]
  /\ \E room \in 0..MaxRoom :
       \E k \in 1..Request(n[dir] - off[dir], room) : WriteCall(k, room)

\* while (off < n) off += snk.write(...): the sink takes nothing
WriteZero ==
  /\ pc = "write"
  /\ \E room \in 0..MaxRoom : WriteCall(0, room)

\* snk.flush(false); and the block is left
Flush ==
  /\ pc = "flush"
  /\ flushes' = [flushes EXCEPT ![Snk(dir)] = @ + 1]
  /\ dir' = AfterBlock(fn, dir)[1]
  /\ pc' = AfterBlock(fn, dir)[2]
  /\ lastW' = NoWrite
  /\ UNCHANGED <<fn, cmd, wire_inited, begins, initCalls, bufsz, rx, arrived,
                 tx, buf, n, off, wrote, stalled, echoed, status, conFlush,
                 ticks>>

\* delay(0); and the next pass of for (;;)
Delay ==
  /\ pc = "delay"
  /\ dir' = AfterDelay(fn)[1]
  /\ pc' = AfterDelay(fn)[2]
  /\ UNCHANGED <<fn, cmd, wire_inited, begins, initCalls, bufsz, rx, arrived,
                 tx, buf, n, off, wrote, flushes, lastW, stalled, echoed,
                 status, conFlush, ticks>>

BridgeStep == BridgeInit \/ Avail \/ Read \/ WriteProgress \/ WriteZero
              \/ Flush \/ Delay

Next ==
  \/ \E e \in EP : Arrive(e)
  \/ ConsolePoll
  \/ \E c \in {"receive", "send"} : Dispatch(c)
  \/ HandlerStep
  \/ CallWireInit
  \/ \E f \in {"receive", "send", "bidi"} : CallRun(f)
  \/ BridgeInit
  \/ Avail
  \/ Read
  \/ WriteProgress
  \/ WriteZero
  \/ Flush
  \/ Delay

Spec == Init /\ [][Next]_vars

----------------------------------------------------------------------------
(* run_bidi_bridge from its call on, with peers that may stop taking bytes  *)
(* for good.  The single thread keeps executing the run function (weak      *)
(* fairness of its steps), and a sink that has not stalled takes a byte     *)
(* sooner or later when the write loop keeps asking.                        *)

StallInit ==
  /\ pc = "init"
  /\ fn = "bidi"
  /\ cmd = "none"
  /\ dir = FirstDir(fn)
  /\ wire_inited = FALSE
  /\ begins = 0
  /\ initCalls = 0
  /\ bufsz \in 1..MaxBuf
  /\ rx = [e \in EP |-> <<>>]
  /\ arrived = [e \in EP |-> <<>>]
  /\ tx = [e \in EP |-> <<>>]
  /\ buf = [d \in DIR |-> <<>>]
  /\ n = [d \in DIR |-> 0]
  /\ off = [d \in DIR |-> 0]
  /\ wrote = [e \in EP |-> FALSE]
  /\ flushes = [e \in EP |-> 0]
  /\ lastW = NoWrite
  /\ stalled = [e \in EP |-> FALSE]
  /\ echoed = 0
  /\ status = 0
  /\ conFlush = 0
  /\ ticks = [d \in DIR |-> 0]

StallNext ==
  \/ \E e \in EP : Arrive(e)
  \/ \E e \in EP : Stall(e)
  \/ BridgeInit
  \/ Avail
  \/ Read
  \/ WriteProgress
  \/ WriteZero
  \/ Flush
  \/ Delay

StallSpec == /\ StallInit
             /\ [][StallNext]_vars
             /\ WF_vars(BridgeStep)
             /\ WF_vars(WriteProgress)

----------------------------------------------------------------------------
(* Any of the three run functions from its call on, under the same          *)
(* scheduling: the thread keeps executing the loop and a sink that has not  *)
(* stalled takes a byte sooner or later.                                    *)

LiveInit ==
  /\ pc = "init"
  /\ fn \in {"receive", "send", "bidi"}
  /\ cmd = "none"
  /\ dir = "w2u"
  /\ wire_inited = FALSE
  /\ begins = 0
  /\ initCalls = 0
  /\ bufsz \in 1..MaxBuf
  /\ rx = [e \in EP |-> <<>>]
  /\ arrived = [e \in EP |-> <<>>]
  /\ tx = [e \in EP |-> <<>>]
  /\ buf = [d \in DIR |-> <<>>]
  /\ n = [d \in DIR |-> 0]
  /\ off = [d \in DIR |-> 0]
  /\ wrote = [e \in EP |-> FALSE]
  /\ flushes = [e \in EP |-> 0]
  /\ lastW = NoWrite
  /\ stalled = [e \in EP |-> FALSE]
  /\ echoed = 0
  /\ status = 0
  /\ conFlush = 0
  /\ ticks = [d \in DIR |-> 0]

LiveNext ==
  \/ \E e \in EP : Arrive(e)
  \/ \E e \in EP : Stall(e)
  \/ BridgeInit
  \/ Avail
  \/ Read
  \/ WriteProgress
  \/ WriteZero
  \/ Flush
  \/ Delay

LiveSpec == /\ LiveInit
            /\ [][LiveNext]_vars
            /\ WF_vars(BridgeStep)
            /\ WF_vars(WriteProgress)

----------------------------------------------------------------------------
(* A run loop whose input is all there when the loop starts, with every  *)
(* read returning the count asked for and every write taking all of it.  *)

Preloaded(e, L) == [k \in 1..L |-> ByteAt(e, k)]

DrainInit ==
  /\ pc = "avail"
  /\ fn \in {"receive", "send", "bidi"}
  /\ cmd = "none"
  /\ dir = FirstDir(fn)
  /\ wire_inited = TRUE
  /\ begins = 1
  /\ initCalls = 1
  /\ bufsz \in 1..MaxBuf
  /\ \E Lu \in 0..MaxArrive, Lw \in 0..MaxArrive :
       /\ rx = [e \in EP |-> Preloaded(e, IF e = "usb" THEN Lu ELSE Lw)]
       /\ arrived = rx
  /\ tx = [e \in EP |-> <<>>]
  /\ buf = [d \in DIR |-> <<>>]
  /\ n = [d \in DIR |-> 0]
  /\ off = [d \in DIR |-> 0]
  /\ wrote = [e \in EP |-> FALSE]
  /\ flushes = [e \in EP |-> 0]
  /\ lastW = NoWrite
  /\ stalled = [e \in EP |-> FALSE]
  /\ echoed = 0
  /\ status = 0
  /\ conFlush = 0
  /\ ticks = [d \in DIR |-> 0]

ReadFull ==
  /\ pc = "read"
  /\ ReadCall(n[dir])

WriteFull ==
  /\ pc = "write"
  /\ \E room \in 0..MaxRoom :
       WriteCall(Request(n[dir] - off[dir], room), room)

DrainNext == Avail \/ ReadFull \/ WriteFull \/ Flush \/ Delay

DrainSpec == DrainInit /\ [][DrainNext]_vars

----------------------------------------------------------------------------
(* write_chunk, which no run loop calls: one call on any port, for any n    *)
(* and any capacity the port reports.  lastW holds the call: pend is n,     *)
(* room is what availableForWrite() returned, req is the count passed to    *)
(* s.write.                                                                 *)

\* size_t send = n; if (room && send > room) send = room;
\* if (send > 256) send = 256;
write_chunk(k, room) ==
  LET send == IF room # 0 /\ k > room THEN room ELSE k
  IN IF send > WRITE_CAP THEN WRITE_CAP ELSE send

ChunkInit ==
  /\ pc = "chunk"
  /\ fn = "none"
  /\ cmd = "none"
  /\ dir = "w2u"
  /\ wire_inited = FALSE
  /\ begins = 0
  /\ initCalls = 0
  /\ bufsz = 1
  /\ rx = [e \in EP |-> <<>>]
  /\ arrived = [e \in EP |-> <<>>]
  /\ tx = [e \in EP |-> <<>>]
  /\ buf = [d \in DIR |-> <<>>]
  /\ n = [d \in DIR |-> 0]
  /\ off = [d \in DIR |-> 0]
  /\ wrote = [e \in EP |-> FALSE]
  /\ flushes = [e \in EP |-> 0]
  /\ \E k \in 0..MaxChunkLen, room \in 0..MaxChunkRoom :
       lastW = [ep |-> "none", req |-> 0, pend |-> k, room |-> room]
  /\ stalled = [e \in EP |-> FALSE]
  /\ echoed = 0
  /\ status = 0
  /\ conFlush = 0
  /\ ticks = [d \in DIR |-> 0]

\* write_chunk(s, p, n) up to its call of s.write(p, send)
WriteChunk(s) ==
  /\ pc = "chunk"
  /\ lastW' = [lastW EXCEPT !.ep = s,
                            !.req = write_chunk(lastW.pend, lastW.room)]
  /\ pc' = "chunk_write"
  /\ UNCHANGED <<fn, cmd, dir, wire_inited, begins, initCalls, bufsz, rx,
                 arrived, tx, buf, n, off, wrote, flushes, stalled, echoed,
                 status, conFlush, ticks>>

ChunkNext == \E s \in EP : WriteChunk(s)

ChunkSpec == ChunkInit /\ [][ChunkNext]_vars

----------------------------------------------------------------------------
(* Observations used by the properties *)

IsPrefix(s, t) == Len(s) <= Len(t) /\ s = SubSeq(t, 1, Len(s))

\* the bytes that arrived at e and were left for a bridge to read
Input(e) == IF e = "usb" THEN Drop(arrived[e], echoed) ELSE arrived[e]

\* run function f has a block for direction d
Active(f, d) ==
  \/ f = "bidi"
  \/ f = "receive" /\ d = "w2u"
  \/ f = "send" /\ d = "u2w"

\* direction d holds bytes it has read and not yet written
Pending(d) == dir = d /\ pc = "write"

\* the direction of the last block of the loop body of run function f
LastDir(f) == IF f = "receive" THEN "w2u" ELSE "u2w"

\* the endpoint a byte arrived at
From(b) == IF b > 100 THEN "wire" ELSE "usb"

CeilDiv(L, B) == (L + B - 1) \div B

----------------------------------------------------------------------------
\* C1: within one direction the bytes the sink has accepted so far are a
\* prefix of the bytes that arrived at the source, in every run function and
\* under any chunking, partial read and partial write; once the source is
\* empty and nothing is pending in the staging buffer they equal the input.
C1_OrderPreserved ==
  \A d \in DIR :
    /\ IsPrefix(tx[Snk(d)], Input(Src(d)))
    /\ (InBridge /\ pc # "init" /\ Active(fn, d) /\ rx[Src(d)] = <<>>
          /\ ~Pending(d))
         => tx[Snk(d)] = Input(Src(d))

\* all of the input of both directions went through, in more than one tick
\* each
C1_Witness ==
  /\ fn = "bidi"
  /\ pc = "delay"
  /\ \A d \in DIR : /\ Len(Input(Src(d))) = MaxArrive
                    /\ tx[Snk(d)] = Input(Src(d))
                    /\ ticks[d] >= 2

\* C2: every write call the bridge issues requests at most
\* min(bytes pending, capacity the sink reports, 256) bytes.
C2_CapInvariant ==
  lastW.ep # "none" =>
    lastW.req <= Min(Min(lastW.pend, lastW.room), WRITE_CAP)

\* C3: however many times wire_init is called, its configuration of Serial1
\* is performed exactly once, by the first call.
C3_InitOnce ==
  /\ begins = (IF initCalls >= 1 THEN 1 ELSE 0)
  /\ wire_inited = (initCalls >= 1)

\* wire_init was called directly and again at the entry of a run function
C3_Witness ==
  /\ initCalls >= 2
  /\ begins = 1
  /\ InBridge
  /\ pc # "init"

\* C4: once a run function has been entered it never returns: control never
\* leaves the run loop and the run function stays the same.
C4_NoReturn == [][InBridge => (InBridge' /\ fn' = fn)]_vars

\* a run loop entered from a command handler has completed a pass with data
C4_Witness ==
  /\ cmd = "receive"
  /\ pc = "delay"
  /\ ticks["w2u"] >= 1

\* C5: after `receive` nothing read from USB is written to Serial1, and after
\* `send` nothing read from Serial1 is written to USB.
C5_OneWay ==
  /\ cmd = "receive" => (tx["wire"] = <<>> /\ ~wrote["wire"])
  /\ cmd = "send" => (tx["usb"] = <<>> /\ ~wrote["usb"])

\* C6: in run_bidi_bridge, with no input at Serial1 no write and no flush is
\* issued on USB, with no input at USB none is issued on Serial1, and a byte
\* is only ever written to the endpoint it did not arrive at.
C6_Independence ==
  fn = "bidi" =>
    \A e \in EP :
      /\ (\A o \in EP \ {e} : Input(o) = <<>>)
           => (~wrote[e] /\ flushes[e] = 0 /\ tx[e] = <<>>)
      /\ \A i \in 1..Len(tx[e]) : From(tx[e][i]) # e

\* USB input was forwarded and flushed while Serial1 never had any input
C6_Witness ==
  /\ fn = "bidi"
  /\ arrived["wire"] = <<>>
  /\ Len(tx["wire"]) >= 2
  /\ flushes["wire"] >= 1
  /\ pc = "delay"

\* control is in the write loop of a sink that has stalled for good
Stuck == pc = "write" /\ stalled[Snk(dir)]

\* C7 as stated: in run_bidi_bridge a pass never blocks on a sink that accepts
\* zero bytes, for a while or for good: the loop keeps completing its passes,
\* so the end-of-iteration yield keeps occurring and input waiting at either
\* source is eventually read.
C7_NeverBlocks ==
  /\ [](pc # "init" => <>(pc = "delay"))
  /\ \A e \in EP : [](rx[e] # <<>> => <>(rx[e] = <<>>))

\* C7 as amended: the passes keep completing, the yield keeps occurring and
\* waiting input is eventually read as long as no sink the loop is writing to
\* has stalled for good; a sink that takes nothing only for a while does not
\* block the loop.
C7_TransientOnly ==
  /\ [](pc # "init" => <>(pc = "delay" \/ Stuck))
  /\ \A e \in EP : [](rx[e] # <<>> => <>(rx[e] = <<>> \/ Stuck))

\* Serial1 has just taken zero bytes of a chunk without having stalled, in
\* a later pass of a loop that has already forwarded data both ways
C7_Witness ==
  /\ fn = "bidi"
  /\ \A e \in EP : ~stalled[e]
  /\ dir = "u2w"
  /\ pc = "write"
  /\ off["u2w"] = 0
  /\ lastW.ep = "wire"
  /\ ticks["u2w"] >= 2
  /\ tx["usb"] # <<>>

\* C8: a pass that finds the source empty performs no read, no write call and
\* no flush on any endpoint and goes on to the next available() query or to
\* the yield at the end of the iteration.
C8_IdleNoOp ==
  [][(pc = "avail" /\ rx[Src(dir)] = <<>> /\ <<pc, dir>>' # <<pc, dir>>)
       => /\ rx' = rx
          /\ tx' = tx
          /\ wrote' = wrote
          /\ flushes' = flushes
          /\ buf' = buf
          /\ pc' \in {"avail", "delay"}]_vars

\* run_receive_bridge has completed a pass with no input at Serial1: nothing
\* was written to or flushed on USB
C8_Witness ==
  /\ fn = "receive"
  /\ pc = "delay"
  /\ arrived["wire"] = <<>>
  /\ ~wrote["usb"]
  /\ flushes["usb"] = 0

\* C9: a command handler prints exactly two status lines, then flushes the
\* console once (blocking), and only then enters the run function; once the
\* run function is entered no status line, echo or console flush follows.
C9_HandlerOrder ==
  [][/\ conFlush' # conFlush => (status = 2 /\ status' = 2 /\ conFlush = 0)
     /\ (~InBridge /\ InBridge' /\ cmd # "none")
          => (status = 2 /\ conFlush = 1)
     /\ InBridge
          => (status' = status /\ conFlush' = conFlush /\ echoed' = echoed)
    ]_vars

\* the bridge entered through `send` is running, after two status lines and
\* one console flush, and has forwarded data
C9_Witness ==
  /\ cmd = "send"
  /\ pc = "delay"
  /\ status = 2
  /\ conFlush = 1
  /\ tx["wire"] # <<>>

\* C10: with all L bytes available when the loop starts, full reads and
\* writes that take all they are asked, the data-moving ticks needed to
\* forward the L bytes through a staging buffer of B bytes are ceil(L / B).
C10_DrainCount ==
  \A d \in DIR :
    (Active(fn, d) /\ rx[Src(d)] = <<>> /\ ~Pending(d))
      => (ticks[d] = CeilDiv(Len(arrived[Src(d)]), bufsz)
            /\ tx[Snk(d)] = arrived[Src(d)])

\* two bytes went through a one-byte staging buffer in two ticks
C10_Witness ==
  /\ fn = "send"
  /\ bufsz = 1
  /\ Len(arrived["usb"]) = 2
  /\ tx["wire"] = arrived["usb"]
  /\ ticks["u2w"] = 2
  /\ pc = "delay"

\* the write loop adds the count each write call returned to the offset and
\* is left only when the offset has reached n
WriteLoopAccounts ==
  /\ [][(pc = "write" /\ off' # off)
         => /\ off'[dir] - off[dir] = Len(tx'[Snk(dir)]) - Len(tx[Snk(dir)])
            /\ off'[dir] <= n[dir]]_vars
  /\ [][(pc = "write" /\ pc' # "write") => off'[dir] = n[dir]]_vars

\* C11 as stated: every byte that arrives at the source of an active
\* direction is eventually written to that direction's sink, provided that
\* sink (that direction's own) goes on accepting bytes; within a tick the
\* write loop accumulates the returned counts until all n bytes are written.
C11_OwnSinkSuffices ==
  /\ \A d \in DIR : \A k \in 1..MaxArrive :
       [](Active(fn, d) /\ Len(arrived[Src(d)]) >= k
            => <>(Len(tx[Snk(d)]) >= k \/ stalled[Snk(d)]))
  /\ WriteLoopAccounts

\* C11 as amended: every byte that arrives at the source of an active
\* direction is eventually written to that direction's sink, provided the
\* loop is never held in the write loop of a sink that has stopped accepting
\* bytes, be it this direction's sink or, in run_bidi_bridge, the other one;
\* within a tick the write loop accumulates the returned counts until all n
\* bytes are written.
C11_Delivery ==
  /\ \A d \in DIR : \A k \in 1..MaxArrive :
       [](Active(fn, d) /\ Len(arrived[Src(d)]) >= k
            => <>(Len(tx[Snk(d)]) >= k \/ Stuck))
  /\ WriteLoopAccounts

\* run_send_bridge has delivered all of its input, the last chunk of two
\* bytes in more than one write call
C11_Witness ==
  /\ fn = "send"
  /\ pc = "flush"
  /\ ~stalled["wire"]
  /\ Len(arrived["usb"]) = MaxArrive
  /\ tx["wire"] = arrived["usb"]
  /\ n["u2w"] >= 2
  /\ lastW.pend = 1

\* direction d is in a tick that has read data and has not flushed yet
InTick(d) == dir = d /\ pc \in {"write", "flush"}

\* C12: a tick that read at least one byte requests flush(false) on that
\* direction's sink exactly once, after the last write call of the tick, when
\* all n bytes have been accepted; a tick that read nothing requests none; the
\* run loop never issues the blocking flush.
C12_FlushDiscipline ==
  /\ [](\A d \in DIR :
         ticks[d] = flushes[Snk(d)] + (IF InTick(d) THEN 1 ELSE 0))
  /\ [][flushes' # flushes
         => /\ pc = "flush"
            /\ n[dir] >= 1
            /\ off[dir] = n[dir]
            /\ flushes' = [flushes EXCEPT ![Snk(dir)] = @ + 1]
            /\ tx' = tx
            /\ pc' \in {"avail", "delay"}]_vars
  /\ [][InBridge => conFlush' = conFlush]_vars

\* run_bidi_bridge has completed two ticks with data from Serial1 and one
\* from USB: two flushes of USB and one of Serial1 were requested
C12_Witness ==
  /\ fn = "bidi"
  /\ pc = "delay"
  /\ ticks = [d \in DIR |-> IF d = "w2u" THEN 2 ELSE 1]
  /\ flushes = [e \in EP |-> IF e = "usb" THEN 2 ELSE 1]
  /\ bufsz = 2
  /\ Len(tx["wire"]) = 2

\* the bytes the sink accepted last, k of them
LastOf(s, k) == SubSeq(s, Len(s) - k + 1, Len(s))

\* C13: the count asked of the source is min(available, sizeof(buf)); the
\* count n the read returns is at most that and the n bytes read are the
\* first n waiting at the source; the tick writes those n bytes and no
\* others; every buffer position read or written is below sizeof(buf), also
\* when the read returns fewer bytes than asked.
C13_BoundedRead ==
  /\ [][(pc = "avail" /\ pc' = "read")
         => n'[dir] = Min(Len(rx[Src(dir)]), bufsz)]_vars
  /\ [][(pc = "read" /\ pc' # "read")
         => /\ n'[dir] <= n[dir]
            /\ buf'[dir] = Take(rx[Src(dir)], n'[dir])
            /\ rx'[Src(dir)] = Drop(rx[Src(dir)], n'[dir])]_vars
  /\ [](\A d \in DIR :
         InTick(d) => /\ Len(buf[d]) = n[d]
                      /\ n[d] <= bufsz
                      /\ off[d] <= n[d]
                      /\ off[d] <= Len(tx[Snk(d)])
                      /\ LastOf(tx[Snk(d)], off[d]) = Take(buf[d], off[d]))
  /\ [](pc = "flush" => LastOf(tx[Snk(dir)], n[dir]) = buf[dir])

\* a one-byte staging buffer has been filled and written out while a further
\* byte waits at the source
C13_Witness ==
  /\ bufsz = 1
  /\ pc = "flush"
  /\ n[dir] = 1
  /\ off[dir] = 1
  /\ Len(rx[Src(dir)]) = 1
  /\ tx[Snk(dir)] = buf[dir]

\* C14: every pass of the run_bidi_bridge loop services Serial1 -> USB first
\* and USB -> Serial1 second, each once: control goes from the Serial1 -> USB
\* block to the USB -> Serial1 block only, from there to the end of the pass
\* only, and a block is not entered again before the other one has been.
C14_PassStructure ==
  [][(fn = "bidi" /\ InBridge /\ pc # "init")
       => /\ dir' # dir
               => \/ /\ dir = "w2u"
                     /\ pc \in {"avail", "flush"}
                     /\ dir' = "u2w"
                     /\ pc' = "avail"
                  \/ /\ dir = "u2w"
                     /\ pc = "delay"
                     /\ dir' = "w2u"
                     /\ pc' = "avail"
          /\ (pc' = "avail" /\ pc # "avail") => dir' # dir
          /\ (pc' = "delay" /\ pc # "delay")
               => (dir = "u2w" /\ pc \in {"avail", "flush"})
          /\ pc = "delay" => pc' \in {"delay", "avail"}]_vars

\* the second pass of run_bidi_bridge has serviced Serial1 -> USB and is at the
\* USB -> Serial1 block, both directions having moved data in the first pass
C14_Witness ==
  /\ fn = "bidi"
  /\ dir = "u2w"
  /\ pc = "avail"
  /\ ticks["w2u"] = 2
  /\ ticks["u2w"] = 1

\* C15 as stated: in run_bidi_bridge a yield, delay(0), occurs between the two
\* directions of a pass: control leaves the Serial1 -> USB block for the
\* USB -> Serial1 block through the yield.
C15_YieldBetween ==
  [][(fn = "bidi" /\ pc # "init" /\ dir = "w2u" /\ dir' = "u2w")
       => pc = "delay"]_vars

\* C15 as amended: in run_bidi_bridge the yield occurs once per pass, after
\* the USB -> Serial1 block, that is between the second direction of one pass
\* and the first direction of the next; control goes from the Serial1 -> USB
\* block straight to the available() query of the USB -> Serial1 block.
C15_YieldAtEndOnly ==
  /\ []((fn = "bidi" /\ pc = "delay") => dir = "u2w")
  /\ [][(fn = "bidi" /\ pc # "init" /\ dir = "w2u" /\ dir' = "u2w")
         => (pc \in {"avail", "flush"} /\ pc' = "avail")]_vars
  /\ [][(fn = "bidi" /\ pc = "delay" /\ pc' # "delay")
         => (dir' = "w2u" /\ pc' = "avail")]_vars

\* run_bidi_bridge has forwarded and flushed a chunk to USB and is at the
\* available() query of USB, where input waits
C15_Witness ==
  /\ fn = "bidi"
  /\ dir = "u2w"
  /\ pc = "avail"
  /\ flushes["usb"] = 1
  /\ ticks["u2w"] = 0
  /\ rx["usb"] # <<>>

\* C16: in each of the three run loops every iteration ends with one yield,
\* delay(0), with or without data moved: the last block of the body is left
\* for the yield only, the yield is followed by the first block of the next
\* iteration, and that block is entered from the yield only; unless control
\* is held in a write loop that does not end, the yield occurs again and
\* again.
C16_YieldEveryPass ==
  /\ [][(InBridge /\ pc # "init")
         => /\ (/\ dir = LastDir(fn)
                 /\ (pc = "flush" \/ (pc = "avail" /\ rx[Src(dir)] = <<>>))
                 /\ pc' # pc)
                 => pc' = "delay"
            /\ (pc = "delay" /\ pc' # "delay")
                 => (pc' = "avail" /\ dir' = FirstDir(fn))
            /\ (pc' = "avail" /\ dir' = FirstDir(fn)
                   /\ <<pc, dir>>' # <<pc, dir>>)
                 => pc = "delay"]_vars
  /\ ([]<><<Delay>>_vars \/ <>[]Stuck)

\* run_send_bridge is at the yield of an iteration that found USB empty,
\* after an iteration that moved data
C16_Witness ==
  /\ fn = "send"
  /\ pc = "delay"
  /\ ticks["u2w"] = 1
  /\ n["u2w"] = 0
  /\ \A e \in EP : ~stalled[e]

\* the run loop is being executed
Running == pc \in BridgePcs \ {"init"}

\* the stage of the bridge session: 0 uninitialized, 1 initialized, 2 running
Stage == IF Running THEN 2 ELSE IF wire_inited THEN 1 ELSE 0

\* C17: the session only moves forward through uninitialized, initialized,
\* running; the latch, once set, stays set; whenever a run loop is being
\* executed, whichever run function it belongs to, wire_init has completed,
\* and as long as it has not, nothing has been queried, read, written or
\* flushed on Serial1.
C17_Lifecycle ==
  /\ [][Stage' >= Stage /\ (wire_inited => wire_inited')]_vars
  /\ [](Running => (wire_inited /\ begins = 1))
  /\ [](~wire_inited => /\ ~wrote["wire"]
                         /\ flushes["wire"] = 0
                         /\ tx["wire"] = <<>>
                         /\ arrived["wire"] = <<>>
                         /\ ticks["w2u"] = 0)

\* run_send_bridge, called directly with the link not yet initialized, has
\* initialized it and has written to Serial1
C17_Witness ==
  /\ fn = "send"
  /\ cmd = "none"
  /\ initCalls = 1
  /\ wire_inited
  /\ Running
  /\ tx["wire"] # <<>>
  /\ flushes["wire"] = 1

\* the bytes of the staging buffer of direction d read and not yet accepted
\* by the sink: positions off..n-1 while the tick lasts, none outside a tick
Staged(d) == IF InTick(d) THEN SubSeq(buf[d], off[d] + 1, n[d]) ELSE <<>>

\* C18: in each direction, at every point, the input of the source is the
\* bytes the sink has accepted, followed by the bytes pending in the staging
\* buffer, followed by the bytes still waiting at the source; the write
\* offset never exceeds n; when the write loop is left, and so at the yield
\* that ends the iteration, nothing is pending (off = n).
C18_Conservation ==
  \A d \in DIR :
    /\ Input(Src(d)) = tx[Snk(d)] \o Staged(d) \o rx[Src(d)]
    /\ InTick(d) => off[d] <= n[d]
    /\ (dir = d /\ pc = "flush") => off[d] = n[d]
    /\ pc = "delay" => Input(Src(d)) = tx[Snk(d)] \o rx[Src(d)]

\* a write call took one byte of a chunk of two; the other byte is pending
C18_Witness ==
  /\ pc = "write"
  /\ n[dir] = 2
  /\ off[dir] = 1
  /\ lastW.pend = 2
  /\ Len(tx[Snk(dir)]) = 1

\* C19: run_receive_bridge only ever services Serial1 -> USB: it issues no
\* write and no flush on Serial1 and reads nothing from USB, whose input
\* stays where it arrived; run_send_bridge only ever services USB -> Serial1:
\* it issues no write and no flush on USB and reads nothing from Serial1.
C19_SingleDirection ==
  /\ fn = "receive"
       => /\ Running => dir = "w2u"
          /\ ~wrote["wire"]
          /\ flushes["wire"] = 0
          /\ tx["wire"] = <<>>
          /\ ticks["u2w"] = 0
          /\ rx["usb"] = Input("usb")
  /\ fn = "send"
       => /\ Running => dir = "u2w"
          /\ ~wrote["usb"]
          /\ flushes["usb"] = 0
          /\ tx["usb"] = <<>>
          /\ ticks["w2u"] = 0
          /\ rx["wire"] = arrived["wire"]

\* run_receive_bridge has forwarded the input of Serial1 to USB while all the
\* input of USB is still waiting there
C19_Witness ==
  /\ fn = "receive"
  /\ pc = "delay"
  /\ Len(rx["usb"]) = MaxArrive
  /\ arrived["wire"] # <<>>
  /\ tx["usb"] = arrived["wire"]

\* C20: for every n and every capacity room the port reports, room = 0
\* included, the count write_chunk passes to s.write is min(n, room, 256).
C20_ChunkMin ==
  pc = "chunk_write" =>
    lastW.req = Min(Min(lastW.pend, lastW.room), WRITE_CAP)

=============================================================================
